---- MODULE Spec2Model ----
(***************************************************************************)
(* Model of ai_voice_agent_docs.py: a Streamlit script that crawls a       *)
(* documentation site, indexes the pages in a Qdrant collection and        *)
(* answers questions with a text agent, a speech-direction agent and a     *)
(* speech synthesis call.                                                  *)
(*                                                                         *)
(* One script run (run_streamlit) is a linear sequence of blocking calls;  *)
(* pc is the position of the script run:                                   *)
(*   idle -> [qdrant -> crawl -> store -> agents ->] main -> idle          *)
(* Python dicts are records, dict.get(k, d) is Get, strings built with     *)
(* f-strings are sequences of their parts, uuid.uuid4() draws an id that   *)
(* is not in use (the least such id).  The external services               *)
(* (Qdrant, Firecrawl, fastembed, OpenAI) answer nondeterministically:     *)
(* each call either fails with an exception or returns.                    *)
(***************************************************************************)
EXTENDS Integers, Sequences, FiniteSets, TLC

\* ---------------------------------------------------------------- bounds
MaxPoints == 4      \* points the collection can hold
MaxBatch == 2       \* page items in one crawl response
MaxResponses == 3   \* responses a crawl job serves

\* ------------------------------------------------------ program constants
QueryLimit == 3     \* query_points(limit=3)

NoDocsMsg == "No relevant documents found in the vector database"
AlreadyExistsMsg == "Collection docs_embeddings already exists"
CollectionName == "docs_embeddings"
DefaultVoice == "coral"
Voices == {"coral", "alloy"}

\* --------------------------------------------------------------- helpers
\* dict.get(key, default)
Get(d, k, default) == IF k \in DOMAIN d THEN d[k] ELSE default

\* Python truthiness of a str, and of a dict or list
Truthy(v) == v # ""

NonEmpty(d) == DOMAIN d # {}

SeqMap(Op(_), s) == [i \in 1..Len(s) |-> Op(s[i])]

RECURSIVE Flatten(_)
Flatten(ss) == IF ss = <<>> THEN <<>> ELSE Head(ss) \o Flatten(Tail(ss))

SeqsUpTo(S, n) == UNION {[1..k -> S] : k \in 0..n}

InjectiveSeqs(S, n) ==
    {s \in SeqsUpTo(S, n) : \A i, j \in 1..Len(s) : i # j => s[i] # s[j]}

Min(a, b) == IF a < b THEN a ELSE b

\* uuid4 with a bug: the id does not depend on the ids in use
uuid4_fixed(used) == 1

\* str(uuid.uuid4()): an id different from every id in use
uuid4(used) == CHOOSE id \in 1..(Cardinality(used) + 1) :
                  /\ id \notin used
                  /\ \A other \in 1..(Cardinality(used) + 1) \ used : id <= other

\* datetime.now().isoformat(); no step of the program reads it back
Now == "now"

\* ------------------------------------------------------------ crawl data
\* Page items a Firecrawl response can carry.
ItemA == [markdown |-> "A", html |-> "<A>",
          metadata |-> [sourceURL |-> "u/a", title |-> "TA",
                        description |-> "DA", language |-> "fr"]]
ItemB == [html |-> "<B>", metadata |-> [sourceURL |-> "u/b"]]
ItemE == [markdown |-> "", metadata |-> [title |-> "TE"]]
ItemN == [html |-> "<N>"]

PageItems == {ItemA, ItemB}

\* A crawl job is the sequence of responses the provider serves; response i
\* carries a "next" cursor (the index of the response it leads to) or 0.
Resp(data, next) == [data |-> data, next |-> next]

Batches == SeqsUpTo(PageItems, MaxBatch)

AllSites ==
    UNION {{[i \in 1..n |-> Resp(d[i], IF m[i] /\ i < n THEN i + 1 ELSE 0)] :
              d \in [1..n -> Batches], m \in [1..n -> BOOLEAN]} :
           n \in 1..MaxResponses}

\* The documentation sources a user of the session can enter.
Sites == {
    <<Resp(<<>>, 0)>>,
    <<Resp(<<ItemE>>, 0)>>,
    <<Resp(<<ItemA>>, 2), Resp(<<ItemB>>, 0)>> }

\* body of the for loop over response['data'] (lines 202-224, output_dir None)
ProcessPage(page) ==
    LET markdown == Get(page, "markdown", "")
        content == IF Truthy(markdown) THEN markdown ELSE Get(page, "html", "")
        metadata == Get(page, "metadata", <<>>)
    IN  [content |-> content,
         url |-> Get(metadata, "sourceURL", ""),
         metadata |-> [title |-> Get(metadata, "title", ""),
                       description |-> Get(metadata, "description", ""),
                       language |-> Get(metadata, "language", "en"),
                       crawl_date |-> Now]]

\* firecrawl.crawl_url(url) (n = 1) and firecrawl.get(next_url): the n-th
\* fetch of the crawl raises when fault = n, else serves the response.
Fetch(crawlsite, cursor) == crawlsite[cursor]

\* CrawlLoop with a bug: the cursor is tested before the batch is read, so
\* the items of the last response are lost
RECURSIVE CrawlLoop_droplast(_, _, _, _, _)
CrawlLoop_droplast(crawlsite, response, acc, nfetch, fault) ==
    LET next_url == response.next
    IN  IF next_url = 0
        THEN [raised |-> FALSE, pages |-> acc, fetches |-> nfetch]
        ELSE IF fault = nfetch + 1
             THEN [raised |-> TRUE, pages |-> <<>>, fetches |-> nfetch]
             ELSE CrawlLoop_droplast(crawlsite, Fetch(crawlsite, next_url),
                                     acc \o SeqMap(ProcessPage, response.data),
                                     nfetch + 1, fault)

\* the while True loop (lines 197-231); response is the one just fetched
RECURSIVE CrawlLoop(_, _, _, _, _)
CrawlLoop(crawlsite, response, acc, nfetch, fault) ==
    LET acc2 == acc \o SeqMap(ProcessPage, response.data)
        next_url == response.next
    IN  IF next_url = 0
        THEN [raised |-> FALSE, pages |-> acc2, fetches |-> nfetch]
        ELSE IF fault = nfetch + 1
             THEN [raised |-> TRUE, pages |-> <<>>, fetches |-> nfetch]
             ELSE CrawlLoop(crawlsite, Fetch(crawlsite, next_url), acc2,
                            nfetch + 1, fault)

crawl_documentation(crawlsite, fault) ==
    IF fault = 1
    THEN [raised |-> TRUE, pages |-> <<>>, fetches |-> 0]
    ELSE CrawlLoop(crawlsite, Fetch(crawlsite, 1), <<>>, 1, fault)

\* --------------------------------------------------------------- indexing
\* embedding_model.embed([text])[0]: deterministic in the text
Embed(text) == [of |-> text]

PointStruct(id, vector, payload) ==
    [id |-> id, vector |-> vector, payload |-> payload]

\* payload={"content": ..., "url": ..., **page["metadata"]}
Payload(page) ==
    [content |-> page.content, url |-> page.url,
     title |-> page.metadata.title,
     description |-> page.metadata.description,
     language |-> page.metadata.language,
     crawl_date |-> page.metadata.crawl_date]

\* client.upsert: insert, or replace the point of the same id
upsert(pts, p) == {q \in pts : q.id # p.id} \cup {p}

Ids(pts) == {p.id : p \in pts}

\* the for loop of store_embeddings; fault = [at, kind] makes the embed or
\* the upsert call of page number at raise
RECURSIVE StoreLoop(_, _, _, _)
StoreLoop(pts, pgs, i, fault) ==
    IF i > Len(pgs)
    THEN [raised |-> FALSE, points |-> pts]
    ELSE IF fault.at = i /\ fault.kind = "embed"
    THEN [raised |-> TRUE, points |-> pts]
    ELSE LET embedding == Embed(pgs[i].content)
             id == uuid4(Ids(pts))
         IN  IF fault.at = i /\ fault.kind = "upsert"
             THEN [raised |-> TRUE, points |-> pts]
             ELSE StoreLoop(upsert(pts, PointStruct(id, embedding,
                                                    Payload(pgs[i]))),
                            pgs, i + 1, fault)

store_embeddings(pts, pgs, fault) == StoreLoop(pts, pgs, 1, fault)

StoreFaults(pgs) ==
    {[at |-> 0, kind |-> "none"]} \cup
    {[at |-> i, kind |-> k] : i \in 1..Len(pgs), k \in {"embed", "upsert"}}

\* ------------------------------------------------------ collection setup
ConnectMsg == "cannot connect to Qdrant"
ProbeMsg == "embedding model unavailable"
CreateMsg == "create_collection timed out"
QdrantFaults == {"none", "connect", "probe", "create"}

\* client.create_collection on the server: refuses an existing name
create_collection(exists, fault) ==
    IF fault = "create" THEN [raised |-> TRUE, error |-> CreateMsg]
    ELSE IF exists THEN [raised |-> TRUE, error |-> AlreadyExistsMsg]
    ELSE [raised |-> FALSE, error |-> ""]

\* "already exists" in str(e)
SaysAlreadyExists(msg) == msg = AlreadyExistsMsg

\* setup_qdrant_collection with a bug: every exception is raised again
setup_qdrant_collection_reraise(exists, pts, fault) ==
    IF fault = "connect"
    THEN [raised |-> TRUE, error |-> ConnectMsg, exists |-> exists, points |-> pts]
    ELSE IF fault = "probe"
    THEN [raised |-> TRUE, error |-> ProbeMsg, exists |-> exists, points |-> pts]
    ELSE LET c == create_collection(exists, fault)
         IN  IF ~c.raised
             THEN [raised |-> FALSE, error |-> "", exists |-> TRUE, points |-> pts]
             ELSE [raised |-> TRUE, error |-> c.error, exists |-> exists,
                   points |-> pts]

setup_qdrant_collection(exists, pts, fault) ==
    IF fault = "connect"
    THEN [raised |-> TRUE, error |-> ConnectMsg, exists |-> exists, points |-> pts]
    ELSE IF fault = "probe"
    THEN [raised |-> TRUE, error |-> ProbeMsg, exists |-> exists, points |-> pts]
    ELSE LET c == create_collection(exists, fault)
         IN  IF ~c.raised
             THEN [raised |-> FALSE, error |-> "", exists |-> TRUE, points |-> pts]
             ELSE IF SaysAlreadyExists(c.error)
             THEN [raised |-> FALSE, error |-> "", exists |-> exists, points |-> pts]
             ELSE [raised |-> TRUE, error |-> c.error, exists |-> exists,
                   points |-> pts]

\* ------------------------------------------------------------ query phase
AllStages == <<"embed", "search", "text", "direction", "speech", "write">>
QueryFaults == {"none", "embed", "search", "text", "direction", "speech", "write"}

FaultMsg == [embed |-> "embedding failed", search |-> "search failed",
             text |-> "processor agent failed",
             direction |-> "tts agent failed",
             speech |-> "speech synthesis failed",
             write |-> "cannot write audio file"]

\* what client.query_points may answer on a collection holding pts: at most
\* limit points, no point twice, in rank order
SearchAnswers(pts) ==
    InjectiveSeqs(pts, Min(QueryLimit, Cardinality(pts)))

\* no_results with a bug: a single result counts as none
no_results_offbyone(search_results) == Len(search_results) <= 1

\* if not search_results
no_results(search_results) == Len(search_results) = 0

\* lines 334-344
build_context(q, search_results) ==
    <<"Based on the following documentation:">>
    \o Flatten(SeqMap(LAMBDA r : IF NonEmpty(r.payload)
                                 THEN <<"From", Get(r.payload, "url", "Unknown URL"),
                                        Get(r.payload, "content", "")>>
                                 ELSE <<>>,
                      search_results))
    \o <<"User Question:", q>>
    \o <<"Please provide a clear, concise answer that can be easily spoken out loud.">>

\* sources_of with a bug: a url already listed is dropped
RECURSIVE sources_of_dedup(_)
sources_of_dedup(search_results) ==
    IF search_results = <<>> THEN <<>>
    ELSE LET n == Len(search_results)
             front == sources_of_dedup(SubSeq(search_results, 1, n - 1))
             url == Get(search_results[n].payload, "url", "Unknown URL")
         IN  IF \E i \in 1..Len(front) : front[i] = url
             THEN front ELSE Append(front, url)

\* [r.payload.get("url", "Unknown URL") for r in search_results if r.payload]
sources_of(search_results) ==
    SeqMap(LAMBDA r : Get(r.payload, "url", "Unknown URL"),
           SelectSeq(search_results, LAMBDA r : NonEmpty(r.payload)))

\* (await Runner.run(agent, input)).final_output: the agent's answer to input
RunAgent(agent, input) == [agent |-> agent, input |-> input]

\* async_openai.audio.speech.create(...).content
Speech(voice, input, instructions) ==
    [voice |-> voice, input |-> input, instructions |-> instructions]

\* os.path.join(temp_dir, f"response_{uuid.uuid4()}.mp3"); the files of
\* earlier queries are not part of the state, so no id is in use
AudioPath(id) == <<"response_", id, ".mp3">>

Raised(msg, st, srch, file) ==
    [raised |-> TRUE, error |-> msg, stages |-> st, search |-> srch,
     audio |-> file]

NoSearch == [returned |-> FALSE, results |-> <<>>]
NoAudio == [written |-> FALSE]

\* synthesize with a bug: a failure to write the audio file is swallowed and
\* the bundle is returned as a success
synthesize_swallow(q, context, search_results, fault, voice, srch, st) ==
    LET st1 == Append(st, "text")
    IN  IF fault = "text"
        THEN Raised(FaultMsg.text, st1, srch, NoAudio)
        ELSE
    LET processor_response == RunAgent("Documentation Processor", context)
        st2 == Append(st1, "direction")
    IN  IF fault = "direction"
        THEN Raised(FaultMsg.direction, st2, srch, NoAudio)
        ELSE
    LET tts_response == RunAgent("Text-to-Speech Agent", processor_response)
        st3 == Append(st2, "speech")
    IN  IF fault = "speech"
        THEN Raised(FaultMsg.speech, st3, srch, NoAudio)
        ELSE
    LET audio_response == Speech(voice, processor_response, tts_response)
        audio_path == AudioPath(uuid4({}))
        st4 == Append(st3, "write")
    IN  [raised |-> FALSE,
         value |-> [status |-> "success",
                    text_response |-> processor_response,
                    tts_instructions |-> tts_response,
                    audio_path |-> audio_path,
                    sources |-> sources_of(search_results),
                    query_details |->
                       [results_found |-> Len(search_results),
                        collection_name |-> CollectionName]],
         stages |-> st4, search |-> srch,
         audio |-> IF fault = "write" THEN NoAudio
                   ELSE [written |-> TRUE, path |-> audio_path,
                         content |-> audio_response]]

\* lines 346-382: text stage, direction stage, speech, file write, bundle;
\* st lists the stages started so far
synthesize(q, context, search_results, fault, voice, srch, st) ==
    LET st1 == Append(st, "text")
    IN  IF fault = "text"
        THEN Raised(FaultMsg.text, st1, srch, NoAudio)
        ELSE
    LET processor_response == RunAgent("Documentation Processor", context)
        st2 == Append(st1, "direction")
    IN  IF fault = "direction"
        THEN Raised(FaultMsg.direction, st2, srch, NoAudio)
        ELSE
    LET tts_response == RunAgent("Text-to-Speech Agent", processor_response)
        st3 == Append(st2, "speech")
    IN  IF fault = "speech"
        THEN Raised(FaultMsg.speech, st3, srch, NoAudio)
        ELSE
    LET audio_response == Speech(voice, processor_response, tts_response)
        audio_path == AudioPath(uuid4({}))
        st4 == Append(st3, "write")
    IN  IF fault = "write"
        THEN Raised(FaultMsg.write, st4, srch, NoAudio)
        ELSE [raised |-> FALSE,
              value |-> [status |-> "success",
                         text_response |-> processor_response,
                         tts_instructions |-> tts_response,
                         audio_path |-> audio_path,
                         sources |-> sources_of(search_results),
                         query_details |->
                            [results_found |-> Len(search_results),
                             collection_name |-> CollectionName]],
              stages |-> st4, search |-> srch,
              audio |-> [written |-> TRUE, path |-> audio_path,
                         content |-> audio_response]]

\* the try block of process_query; found is the answer of query_points
process_query_try(q, found, fault, voice) ==
    IF fault = "embed"
    THEN Raised(FaultMsg.embed, <<"embed">>, NoSearch, NoAudio)
    ELSE IF fault = "search"
    THEN Raised(FaultMsg.search, <<"embed", "search">>, NoSearch, NoAudio)
    ELSE LET search_results == found
             srch == [returned |-> TRUE, results |-> search_results]
         IN  IF no_results(search_results)
             THEN Raised(NoDocsMsg, <<"embed", "search">>, srch, NoAudio)
             ELSE synthesize(q, build_context(q, search_results), search_results,
                             fault, voice, srch, <<"embed", "search">>)

\* process_query with a bug: the handler does not catch a failure of the
\* speech synthesis call
process_query_leaky(q, found, fault, voice) ==
    LET r == process_query_try(q, found, fault, voice)
    IN  IF r.raised /\ r.error # FaultMsg.speech
        THEN [raised |-> FALSE,
              value |-> [status |-> "error", error |-> r.error, query |-> q],
              stages |-> r.stages, search |-> r.search,
              audio |-> r.audio]
        ELSE r

\* process_query: the try block and its except Exception handler
process_query(q, found, fault, voice) ==
    LET r == process_query_try(q, found, fault, voice)
    IN  IF r.raised
        THEN [raised |-> FALSE,
              value |-> [status |-> "error", error |-> r.error, query |-> q],
              stages |-> r.stages, search |-> r.search,
              audio |-> r.audio]
        ELSE r

\* ------------------------------------------------------------------ state
VARIABLES
    pc,                \* position of the script run
    setup_complete,    \* st.session_state.setup_complete
    client,            \* st.session_state.client / embedding_model are set
    agents,            \* st.session_state.processor_agent / tts_agent are set
    selected_voice,    \* st.session_state.selected_voice
    collection_exists, \* the Qdrant server has the collection
    points,            \* the points of the collection
    setup_status,      \* most recent setup attempt: none, running, ok, failed
    indexed,           \* pages of the most recent attempt, if it completed
    \* locals of the current script run
    query,             \* value of the question text input
    site,              \* the crawl job Firecrawl served to crawl_documentation
    pages,             \* pages returned by crawl_documentation
    fetches,           \* fetches performed by crawl_documentation
    setup_error,       \* message shown by st.error in the sidebar
    before,            \* prev_ok: the attempt before this one completed;
                       \* points: the collection when this attempt started
    result,            \* what process_query returned
    stages,            \* stages process_query started
    search,            \* what query_points answered
    audio,             \* the audio file written
    escaped            \* an exception left process_query

vars == <<pc, setup_complete, client, agents, selected_voice,
          collection_exists, points, setup_status, indexed, query, site,
          pages, fetches, setup_error, before, result, stages, search, audio,
          escaped>>

session == <<setup_complete, client, agents, selected_voice>>
server == <<collection_exists, points>>
setup_locals == <<site, pages, fetches, setup_error, before>>
query_locals == <<result, stages, search, audio, escaped>>

Queries == {"", "q"}
FillMsg == "Please fill in all the required fields!"
NoResult == [status |-> "none"]
NoSite == <<>>
NoAttempt == [prev_ok |-> FALSE, points |-> {}]

\* the locals of a script run before it has assigned them
FreshLocals ==
    /\ query' = ""
    /\ site' = NoSite
    /\ pages' = <<>>
    /\ fetches' = 0
    /\ setup_error' = ""
    /\ before' = NoAttempt
    /\ result' = NoResult
    /\ stages' = <<>>
    /\ search' = NoSearch
    /\ audio' = NoAudio
    /\ escaped' = FALSE

\* init_session_state defaults (lines 30-43), an empty Qdrant server
Init ==
    /\ pc = "idle"
    /\ setup_complete = FALSE
    /\ client = FALSE
    /\ agents = FALSE
    /\ selected_voice = DefaultVoice
    /\ collection_exists = FALSE
    /\ points = {}
    /\ setup_status = "none"
    /\ indexed = <<>>
    /\ query = ""
    /\ site = NoSite
    /\ pages = <<>>
    /\ fetches = 0
    /\ setup_error = ""
    /\ before = NoAttempt
    /\ result = NoResult
    /\ stages = <<>>
    /\ search = NoSearch
    /\ audio = NoAudio
    /\ escaped = FALSE

\* the except handler of sidebar_config (lines 143-144): the attempt ends,
\* the script goes on to the main area
SetupFailed(msg) ==
    /\ setup_status' = "failed"
    /\ indexed' = <<>>
    /\ setup_error' = msg
    /\ pc' = "sidebar"

\* A script run starts: the widgets are read (lines 56-93, 413-417) and the
\* Initialize System button is clicked or not (lines 96-103, 145-146).
run_streamlit(clicked, filled, q, voice) ==
    /\ pc = "idle"
    /\ selected_voice' = voice
    /\ query' = q
    /\ IF clicked /\ filled
       THEN /\ pc' = "qdrant"
            /\ before' = [prev_ok |-> setup_status = "ok", points |-> points]
            /\ setup_status' = "running"
            /\ UNCHANGED setup_error
       ELSE /\ pc' = "main"
            /\ setup_error' = IF clicked THEN FillMsg ELSE ""
            /\ UNCHANGED <<before, setup_status>>
    /\ UNCHANGED <<setup_complete, client, agents, server, indexed, site,
                   pages, fetches, query_locals>>

\* lines 108-115
qdrant_stage(fault) ==
    /\ pc = "qdrant"
    /\ LET r == setup_qdrant_collection(collection_exists, points, fault)
       IN  IF r.raised
           THEN /\ SetupFailed(r.error)
                /\ UNCHANGED <<client, server>>
           ELSE /\ client' = TRUE
                /\ collection_exists' = r.exists
                /\ points' = r.points
                /\ pc' = "crawl"
                /\ UNCHANGED <<setup_status, indexed, setup_error>>
    /\ UNCHANGED <<setup_complete, agents, selected_voice, query, site,
                   pages, fetches, before, query_locals>>

\* lines 118-123; s is the crawl job Firecrawl serves for doc_url
crawl_stage(s, fault) ==
    /\ pc = "crawl"
    /\ LET r == crawl_documentation(s, fault)
       IN  /\ site' = s
           /\ fetches' = r.fetches
           /\ pages' = r.pages
           /\ IF r.raised
              THEN SetupFailed("crawl failed")
              ELSE /\ pc' = "store"
                   /\ UNCHANGED <<setup_status, indexed, setup_error>>
    /\ UNCHANGED <<session, server, query, before, query_locals>>

\* lines 126-131
store_stage(fault) ==
    /\ pc = "store"
    /\ LET r == store_embeddings(points, pages, fault)
       IN  /\ Cardinality(r.points) <= MaxPoints
           /\ points' = r.points
           /\ IF r.raised
              THEN SetupFailed("storing embeddings failed")
              ELSE /\ pc' = "agents"
                   /\ UNCHANGED <<setup_status, indexed, setup_error>>
    /\ UNCHANGED <<session, collection_exists, query, site, pages, fetches,
                   before, query_locals>>

\* lines 134-141; setup_agents (lines 268-305) builds the two agents or raises
agents_stage(fails) ==
    /\ pc = "agents"
    /\ IF fails
       THEN /\ SetupFailed("agent setup failed")
            /\ UNCHANGED <<agents, setup_complete>>
       ELSE /\ agents' = TRUE
            /\ setup_complete' = TRUE
            /\ setup_status' = "ok"
            /\ indexed' = pages
            /\ pc' = "sidebar"
            /\ UNCHANGED setup_error
    /\ UNCHANGED <<client, selected_voice, server, query, site, pages,
                   fetches, before, query_locals>>

\* sidebar_config returns after a setup attempt: its locals are gone
sidebar_return ==
    /\ pc = "sidebar"
    /\ pc' = "main"
    /\ site' = NoSite
    /\ pages' = <<>>
    /\ fetches' = 0
    /\ setup_error' = ""
    /\ before' = NoAttempt
    /\ UNCHANGED <<session, server, setup_status, indexed, query, query_locals>>

\* query_phase with a bug: a failed query clears the setup_complete flag
query_phase_reset(found, fault) ==
    /\ pc = "main"
    /\ Truthy(query) /\ setup_complete
    /\ LET r == process_query(query, found, fault, selected_voice)
       IN  /\ stages' = r.stages
           /\ search' = r.search
           /\ audio' = r.audio
           /\ escaped' = r.raised
           /\ result' = IF r.raised THEN NoResult ELSE r.value
           /\ setup_complete' = (~r.raised /\ r.value.status = "success")
    /\ pc' = "done"
    /\ UNCHANGED <<client, agents, selected_voice, server, setup_status,
                   indexed, query, setup_locals>>

\* lines 419-463: if query and setup_complete, process it
query_phase(found, fault) ==
    /\ pc = "main"
    /\ Truthy(query) /\ setup_complete
    /\ LET r == process_query(query, found, fault, selected_voice)
       IN  /\ stages' = r.stages
           /\ search' = r.search
           /\ audio' = r.audio
           /\ escaped' = r.raised
           /\ result' = IF r.raised THEN NoResult ELSE r.value
    /\ pc' = "done"
    /\ UNCHANGED <<session, server, setup_status, indexed, query, setup_locals>>

\* lines 465-466, or no question typed
no_query ==
    /\ pc = "main"
    /\ ~(Truthy(query) /\ setup_complete)
    /\ pc' = "done"
    /\ UNCHANGED <<session, server, setup_status, indexed, query,
                   setup_locals, query_locals>>

\* the script run ends and its locals are gone
end_run ==
    /\ pc = "done"
    /\ pc' = "idle"
    /\ FreshLocals
    /\ UNCHANGED <<session, server, setup_status, indexed>>

Next ==
    \/ \E clicked, filled \in BOOLEAN, q \in Queries, voice \in Voices :
          run_streamlit(clicked, filled, q, voice)
    \/ \E fault \in QdrantFaults : qdrant_stage(fault)
    \/ \E s \in Sites : \E fault \in 0..Len(s) : crawl_stage(s, fault)
    \/ \E fault \in StoreFaults(pages) : store_stage(fault)
    \/ \E fails \in BOOLEAN : agents_stage(fails)
    \/ sidebar_return
    \/ /\ pc = "main"
       /\ \E found \in SearchAnswers(points), fault \in QueryFaults :
             query_phase(found, fault)
    \/ no_query
    \/ end_run

Spec == Init /\ [][Next]_vars

\* The crawl alone: the script has reached crawl_documentation in the first
\* setup attempt of the session, and Firecrawl may serve any crawl job.
InitCrawl ==
    /\ pc = "crawl"
    /\ setup_complete = FALSE
    /\ client = TRUE
    /\ agents = FALSE
    /\ selected_voice = DefaultVoice
    /\ collection_exists = TRUE
    /\ points = {}
    /\ setup_status = "running"
    /\ indexed = <<>>
    /\ query = ""
    /\ site = NoSite
    /\ pages = <<>>
    /\ fetches = 0
    /\ setup_error = ""
    /\ before = NoAttempt
    /\ result = NoResult
    /\ stages = <<>>
    /\ search = NoSearch
    /\ audio = NoAudio
    /\ escaped = FALSE

NextCrawl == \E s \in AllSites : \E fault \in 0..Len(s) : crawl_stage(s, fault)

SpecCrawl == InitCrawl /\ [][NextCrawl]_vars

\* ----------------------------------------------------------------- claims
\* process_query was called in this script run
Queried == stages # <<>>

IsPrefix(s, t) == Len(s) <= Len(t) /\ \A i \in 1..Len(s) : s[i] = t[i]

\* C1: a query is processed only if the most recent setup attempt ran to
\* completion without error.
C1_QueryOnlyAfterCompletedSetup ==
    Queried => setup_status = "ok"

\* C2: whichever stage fails, process_query returns a bundle whose status is
\* "success" or "error" (the latter with the error message) and no exception
\* leaves it.
C2_StructuredResult ==
    Queried =>
        /\ ~escaped
        /\ result.status \in {"success", "error"}
        /\ result.status = "error" =>
              /\ "error" \in DOMAIN result
              /\ result.error \in {FaultMsg[st] : st \in DOMAIN FaultMsg}
                                  \cup {NoDocsMsg}

C2_Witness ==
    /\ pc = "done"
    /\ result.status = "error"
    /\ result.error = FaultMsg.write

\* number of responses of a crawl job that carry a cursor before the first
\* one that carries none
CursorCount(crawlsite) ==
    CHOOSE n \in 0..(Len(crawlsite) - 1) :
        /\ crawlsite[n + 1].next = 0
        /\ \A i \in 1..n : crawlsite[i].next # 0

\* C3: against a provider that returns a cursor N times and then none, the
\* crawl performs exactly N+1 fetches and returns every page item of the N+1
\* batches, once each and in batch order, each with its own url and metadata.
C3_CrawlPagination ==
    pc = "store" =>
        LET N == CursorCount(site)
            items == Flatten([i \in 1..(N + 1) |-> site[i].data])
        IN  /\ fetches = N + 1
            /\ Len(pages) = Len(items)
            /\ \A j \in 1..Len(items) :
                  LET md == IF "metadata" \in DOMAIN items[j]
                            THEN items[j].metadata ELSE <<>>
                  IN  /\ pages[j].content =
                            (IF "markdown" \in DOMAIN items[j]
                                /\ items[j].markdown # ""
                             THEN items[j].markdown
                             ELSE IF "html" \in DOMAIN items[j]
                                  THEN items[j].html ELSE "")
                      /\ pages[j].url = (IF "sourceURL" \in DOMAIN md
                                         THEN md.sourceURL ELSE "")
                      /\ pages[j].metadata.title =
                            (IF "title" \in DOMAIN md THEN md.title ELSE "")
                      /\ pages[j].metadata.description =
                            (IF "description" \in DOMAIN md
                             THEN md.description ELSE "")
                      /\ pages[j].metadata.language =
                            (IF "language" \in DOMAIN md
                             THEN md.language ELSE "en")

C3_Witness ==
    /\ pc = "store"
    /\ Len(site) = 3
    /\ fetches = 2
    /\ Len(pages) = 4
    /\ pages[1].url # pages[2].url

\* C4: the no-relevant-documents error is produced if and only if the vector
\* search returns zero results; then no synthesis stage runs, and with one or
\* more results the pipeline goes on to the text stage.
C4_NoResultsIff ==
    Queried =>
        /\ (result.status = "error" /\ result.error = NoDocsMsg)
              <=> (search.returned /\ Len(search.results) = 0)
        /\ (search.returned /\ Len(search.results) = 0)
              => stages = <<"embed", "search">>
        /\ (search.returned /\ Len(search.results) > 0)
              => Len(stages) >= 3 /\ stages[3] = "text"

C4_Witness ==
    /\ pc = "done"
    /\ points = {}
    /\ search.returned
    /\ result.status = "error"
    /\ result.error = NoDocsMsg

\* C5: when store_embeddings completes on a non-empty list of pages, the
\* collection gains exactly one point per page, each carrying that page's
\* content and url under a new id distinct from every other point's id.
C5_OnePointPerPage ==
    [][(pc = "store" /\ pc' = "agents" /\ pages # <<>>) =>
          LET new == points' \ points
          IN  /\ points \subseteq points'
              /\ Cardinality(points') = Cardinality(points) + Len(pages)
              /\ Cardinality(Ids(new)) = Len(pages)
              /\ Ids(new) \cap Ids(points) = {}
              /\ \E f \in [1..Len(pages) -> new] :
                    /\ \A i, j \in 1..Len(pages) : i # j => f[i] # f[j]
                    /\ \A i \in 1..Len(pages) :
                          /\ f[i].payload.content = pages[i].content
                          /\ f[i].payload.url = pages[i].url]_vars

C5_Witness ==
    /\ pc = "agents"
    /\ Len(pages) = 2
    /\ Cardinality(points) = 4

\* the (content, url) pairs the collection indexes
IndexedPages(pts) == {<<p.payload.content, p.payload.url>> : p \in pts}

\* C6: running the setup a second time in the same session for the same
\* crawled pages leaves the collection with the same set of indexed pages and
\* the same point count as after the first run.
C6_SetupIdempotent ==
    [][(pc = "agents" /\ setup_status' = "ok" /\ before.prev_ok
        /\ indexed = pages) =>
          /\ IndexedPages(points) = IndexedPages(before.points)
          /\ Cardinality(points) = Cardinality(before.points)]_vars

\* C7: setup_qdrant_collection on a collection that is already present does
\* not raise for that reason, returns a usable client and embedding model and
\* leaves the points of the collection unchanged.
C7_EnsureCollectionIdempotent ==
    [][(pc = "qdrant" /\ collection_exists) =>
          /\ points' = points
          /\ collection_exists'
          /\ \/ pc' = "crawl" /\ client'
             \/ /\ pc' = "sidebar"
                /\ setup_error' \in {ConnectMsg, ProbeMsg, CreateMsg}]_vars

C7_Witness ==
    /\ pc = "crawl"
    /\ client
    /\ before.prev_ok
    /\ before.points # {}
    /\ points = before.points

\* C8: the synthesis steps run in the order text, direction, speech, file
\* write, each on the whole output of the one before; when one fails no later
\* step runs, no audio path is returned and the result is one "error" bundle;
\* "success" is returned only after all four completed.
C8_StagesInOrder ==
    Queried =>
        /\ IsPrefix(stages, AllStages)
        /\ result.status \in {"success", "error"}
        /\ result.status = "success" =>
              /\ stages = AllStages
              /\ audio.written
              /\ result.audio_path = audio.path
              /\ result.tts_instructions.input = result.text_response
              /\ audio.content.input = result.text_response
              /\ audio.content.instructions = result.tts_instructions
        /\ result.status = "error" =>
              /\ DOMAIN result = {"status", "error", "query"}
              /\ ~audio.written
              /\ \A i \in 3..6 :
                    result.error = FaultMsg[AllStages[i]] => Len(stages) = i

C8_Witness ==
    /\ pc = "done"
    /\ result.status = "error"
    /\ result.error = FaultMsg.direction
    /\ stages = <<"embed", "search", "text", "direction">>

\* C9: the query phase leaves the points of the collection and the session's
\* setup state as they were, whether the query succeeds or fails; only
\* store_embeddings adds points.
C9_QueryPhaseReadOnly ==
    [][/\ pc = "main" =>
            /\ points' = points
            /\ collection_exists' = collection_exists
            /\ setup_complete' = setup_complete
            /\ client' = client
            /\ agents' = agents
       /\ points' # points => pc = "store"]_vars

C9_Witness ==
    /\ pc = "done"
    /\ result.status = "error"
    /\ setup_complete
    /\ Cardinality(points) >= 2

\* C10: on success the sources are the urls of the search results in rank
\* order, one per result and at most three, and the context handed to the
\* text stage lists the same results' url and content in that order, then the
\* question, then the spoken-delivery instruction.
C10_SourcesAndContextInRankOrder ==
    result.status = "success" =>
        LET found == search.results
            n == Len(found)
            context == result.text_response.input
        IN  /\ n <= QueryLimit
            /\ Len(result.sources) = n
            /\ \A i \in 1..n : result.sources[i] = found[i].payload.url
            /\ Len(context) = 3 * n + 4
            /\ context[1] = "Based on the following documentation:"
            /\ \A i \in 1..n :
                  /\ context[3 * i - 1] = "From"
                  /\ context[3 * i] = found[i].payload.url
                  /\ context[3 * i + 1] = found[i].payload.content
            /\ context[3 * n + 2] = "User Question:"
            /\ context[3 * n + 3] = query
            /\ context[3 * n + 4] =
                  "Please provide a clear, concise answer that can be easily spoken out loud."

C10_Witness ==
    /\ pc = "done"
    /\ result.status = "success"
    /\ Cardinality(points) > QueryLimit
    /\ Len(result.sources) = QueryLimit
    /\ search.results[1].id > search.results[2].id
    /\ result.sources[1] # result.sources[2]

====
